---- MODULE Spec2Model ----
(***************************************************************************)
(* Model of src/lib/iterable.ts: lazy sequence combinators built on        *)
(* generator functions.  A traversal of a wrapper is one activation of its *)
(* generator function: a frame of locals, a cursor into the source, and    *)
(* the arrays it allocates on the (shared) heap.                           *)
(***************************************************************************)
EXTENDS Integers, Sequences, FiniteSets, TLC

VARIABLES
    kind,      \* the combinator whose wrapper is traversed
    seq,       \* the source iterable (a re-traversable array)
    num,       \* the numeric argument: num / size / start
    endArg,    \* sliced's optional end: <<>> when omitted, <<e>> otherwise
    rows,      \* transpose's source: an array of arrays
    travs,     \* the traversals of the wrapper
    heap,      \* arrays allocated so far; an address is an index
    frames,    \* per traversal: the generator activation's locals
    transp,    \* the outer traversal of transpose(rows)
    colrun     \* one traversal of each column yielded by transpose

vars == <<kind, seq, num, endArg, rows, travs, heap, frames, transp, colrun>>

(* ------------------------------ bounds ------------------------------ *)
MaxLen == 4        \* longest source, single traversal
MaxVal == 3        \* source elements are 1..MaxVal
PairMaxLen == 3    \* longest source when two traversals interleave
MaxRows == 3       \* transpose: number of rows
MaxRowLen == 2     \* transpose: longest row
PermMaxLen == 4    \* permutations: longest source of distinct elements

undefined == -1    \* JavaScript's undefined ("no value"); never an element

SeqsUpTo(S, n) == UNION {[1..m -> S] : m \in 0..n}
Nums(n) == (0 - n - 1)..(n + 1)

Max2(a, b) == IF a >= b THEN a ELSE b
Min2(a, b) == IF a <= b THEN a ELSE b

(* ------------------- loop bodies of the generators ------------------- *)

\* drop: `if (i-- > 0) continue; yield x;`
dropBody(iv, x) ==
    [i |-> iv - 1, yield |-> IF iv > 0 THEN <<>> ELSE <<x>>]

\* take: `if (i-- <= 0) return; yield x;`
takeBody(iv, x) ==
    [i |-> iv - 1, ret |-> iv <= 0, yield |-> IF iv <= 0 THEN <<>> ELSE <<x>>]

takeExceptLastBodyLate(n, iv, buffer, x) ==
    LET b == IF iv + 1 <= Len(buffer) THEN [buffer EXCEPT ![iv + 1] = x]
                                      ELSE Append(buffer, x)
    IN  [i |-> IF iv + 1 >= n THEN 0 ELSE iv + 1,
         buffer |-> b,
         yield |-> IF Len(buffer) >= n THEN <<b[iv + 1]>> ELSE <<>>]

\* takeExceptLast: `if (buffer.length >= num) yield buffer[i];
\*                  buffer[i] = x; if (++i >= num) i = 0;`
takeExceptLastBody(n, iv, buffer, x) ==
    [i |-> IF iv + 1 >= n THEN 0 ELSE iv + 1,
     buffer |-> IF iv + 1 <= Len(buffer) THEN [buffer EXCEPT ![iv + 1] = x]
                                         ELSE Append(buffer, x),
     yield |-> IF Len(buffer) >= n THEN <<buffer[iv + 1]>> ELSE <<>>]

(* -------------- the combinators as whole traversals (toArray) -------------- *)

RECURSIVE countFrom(_, _, _)
countFrom(iter, p, cnt) ==
    IF p > Len(iter) THEN cnt ELSE countFrom(iter, p + 1, cnt + 1)

\* count(iter) without a predicate
count(iter) == countFrom(iter, 1, 0)

RECURSIVE dropFrom(_, _, _)
dropFrom(iter, p, iv) ==
    IF p > Len(iter) THEN <<>>
    ELSE LET b == dropBody(iv, iter[p]) IN b.yield \o dropFrom(iter, p + 1, b.i)

drop(iter, n) == dropFrom(iter, 1, n)

RECURSIVE takeFrom(_, _, _)
takeFrom(iter, p, iv) ==
    IF p > Len(iter) THEN <<>>
    ELSE LET b == takeBody(iv, iter[p])
         IN  IF b.ret THEN <<>> ELSE b.yield \o takeFrom(iter, p + 1, b.i)

take(iter, n) == takeFrom(iter, 1, n)

RECURSIVE takeExceptLastFrom(_, _, _, _, _)
takeExceptLastFrom(iter, n, p, iv, buffer) ==
    IF p > Len(iter) THEN <<>>
    ELSE LET b == takeExceptLastBody(n, iv, buffer, iter[p])
         IN  b.yield \o takeExceptLastFrom(iter, n, p + 1, b.i, b.buffer)

takeExceptLast(iter, n) ==
    IF n <= 0 THEN iter ELSE takeExceptLastFrom(iter, n, 1, 0, <<>>)

\* sliced(iter, start, end); e is <<>> for an omitted end
sliced(iter, start, e) ==
    LET it == IF start > 0 THEN drop(iter, start)
              ELSE IF start < 0 THEN drop(iter, count(iter) + start)
              ELSE iter
    IN  IF e = <<>> THEN it
        ELSE IF e[1] < 0 THEN takeExceptLast(it, 0 - e[1])
        ELSE take(it, e[1] - start)

nthOffByOne(iter, index) ==
    LET d == drop(iter, index + 1)
    IN  IF index >= 0 /\ Len(d) > 0 THEN d[1] ELSE undefined

\* nth: first element of drop(iter, index), undefined when there is none
nth(iter, index) ==
    LET d == drop(iter, index)
    IN  IF index >= 0 /\ Len(d) > 0 THEN d[1] ELSE undefined

\* mapBy(iter, arr => count(arr))
mapByCount(iter) == [k \in 1..Len(iter) |-> count(iter[k])]

RECURSIVE maxFrom(_, _, _, _)
maxFrom(iter, p, r, isFirst) ==
    IF p > Len(iter) THEN r
    ELSE IF isFirst \/ iter[p] > r THEN maxFrom(iter, p + 1, iter[p], FALSE)
    ELSE maxFrom(iter, p + 1, r, isFirst)

max(iter) == maxFrom(iter, 1, undefined, TRUE)

(* ------------------------- frames and the heap ------------------------- *)

\* a generator activation before its first resume
NewFrame == [pc |-> "start", pos |-> 0, i |-> 0, cur |-> 0, c |-> <<>>, out |-> <<>>]

\* what a yield hands to the consumer: a plain value (ref = 0), or a wrapper
\* `new It(a)` over the array at address a, with its contents at the yield
Value(x) == [ref |-> 0, val |-> x]
Wrapper(h, a) == [ref |-> a, val |-> h[a]]

allocHoisted(h, v) ==
    IF h = <<>> THEN [h |-> <<v>>, a |-> 1]
    ELSE [h |-> [h EXCEPT ![1] = v], a |-> 1]

\* an array literal / spread creates a new array, distinct from all others
alloc(h, v) == [h |-> Append(h, v), a |-> Len(h) + 1]

resetTempInPlace(h, a) == [h |-> [h EXCEPT ![a] = <<>>], a |-> a]

\* slicesOf: `temp = []` rebinds temp to a new array
resetTemp(h, a) == alloc(h, <<>>)

permYieldCopy(h, a) ==
    LET n == alloc(h, h[a]) IN [h |-> n.h, item |-> Wrapper(n.h, n.a)]

\* permutations: `yield new It(arr)` wraps the backing array itself
permYield(h, a) == [h |-> h, item |-> Wrapper(h, a)]

\* slicesOfOverlapping: `yield new It([...temp])` wraps a copy of the buffer
slicesOfOverlappingYield(h, a) ==
    LET n == alloc(h, h[a]) IN [h |-> n.h, item |-> Wrapper(n.h, n.a)]

Swap(arr, a, b) == [arr EXCEPT ![a] = arr[b], ![b] = arr[a]]

(* --------------- the generator prologue, up to the loop --------------- *)

begin(k, iter, n, h, f) ==
    CASE k \in {"drop", "take"} ->
            [h |-> h, f |-> [f EXCEPT !.pc = "loop", !.i = n]]
      [] k = "takeExceptLast" ->
            IF n <= 0 THEN [h |-> h, f |-> [f EXCEPT !.pc = "loop"]]
            ELSE LET b == alloc(h, <<>>)
                 IN  [h |-> b.h, f |-> [f EXCEPT !.pc = "loop", !.i = 0, !.cur = b.a]]
      [] k = "slicesOf" ->
            LET b == alloc(h, <<>>)
            IN  [h |-> b.h, f |-> [f EXCEPT !.pc = "loop", !.cur = b.a]]
      [] k = "slicesOfOverlapping" ->
            LET b == alloc(h, <<>>)
                y == slicesOfOverlappingYield(b.h, b.a)
            IN  IF n = 0
                THEN [h |-> y.h, f |-> [f EXCEPT !.pc = "loop", !.cur = b.a,
                                                 !.out = Append(@, y.item)]]
                ELSE [h |-> b.h, f |-> [f EXCEPT !.pc = "loop", !.cur = b.a]]
      [] k = "reversed" ->
            LET b == alloc(h, iter)
            IN  [h |-> b.h, f |-> [f EXCEPT !.pc = "loop", !.cur = b.a,
                                            !.pos = Len(iter), !.i = Len(iter) - 1]]
      [] k = "permutations" ->
            LET b == alloc(h, iter)
                y == permYield(b.h, b.a)
            IN  [h |-> y.h, f |-> [f EXCEPT !.pc = "loop", !.cur = b.a,
                                            !.pos = Len(iter),
                                            !.c = [p \in 1..Len(iter) |-> 0],
                                            !.i = 0, !.out = Append(@, y.item)]]

(* ------------------ one iteration of each generator loop ------------------ *)

Yielded(ys) == [p \in 1..Len(ys) |-> Value(ys[p])]

dropStep(iter, h, f) ==
    IF f.pos >= Len(iter) THEN [h |-> h, f |-> [f EXCEPT !.pc = "done"]]
    ELSE LET b == dropBody(f.i, iter[f.pos + 1])
         IN  [h |-> h, f |-> [f EXCEPT !.pos = @ + 1, !.i = b.i,
                                       !.out = @ \o Yielded(b.yield)]]

takeStep(iter, h, f) ==
    IF f.pos >= Len(iter) THEN [h |-> h, f |-> [f EXCEPT !.pc = "done"]]
    ELSE LET b == takeBody(f.i, iter[f.pos + 1])
         IN  [h |-> h, f |-> [f EXCEPT !.pos = @ + 1, !.i = b.i,
                                       !.pc = IF b.ret THEN "done" ELSE @,
                                       !.out = @ \o Yielded(b.yield)]]

takeExceptLastStep(iter, n, h, f) ==
    IF f.pos >= Len(iter) THEN [h |-> h, f |-> [f EXCEPT !.pc = "done"]]
    ELSE IF n <= 0
    THEN [h |-> h, f |-> [f EXCEPT !.pos = @ + 1,
                                   !.out = Append(@, Value(iter[f.pos + 1]))]]
    ELSE LET b == takeExceptLastBody(n, f.i, h[f.cur], iter[f.pos + 1])
         IN  [h |-> [h EXCEPT ![f.cur] = b.buffer],
              f |-> [f EXCEPT !.pos = @ + 1, !.i = b.i,
                              !.out = @ \o Yielded(b.yield)]]

slicesOfTailNonEmptyOnly(size, temp) == Len(temp) > 0

\* slicesOf, after the loop: `if (temp.length > 0 || size === 0) yield ...`
slicesOfTail(size, temp) == Len(temp) > 0 \/ size = 0

slicesOfStep(iter, size, h, f) ==
    LET temp == h[f.cur] IN
    IF f.pos >= Len(iter)
    THEN [h |-> h,
          f |-> [f EXCEPT !.pc = "done",
                          !.out = IF slicesOfTail(size, temp)
                                  THEN Append(@, Wrapper(h, f.cur)) ELSE @]]
    ELSE LET x  == iter[f.pos + 1]
             t1 == IF Len(temp) < size THEN Append(temp, x) ELSE temp
             h1 == [h EXCEPT ![f.cur] = t1]
             r  == resetTemp(h1, f.cur)
         IN  IF Len(t1) = size
             THEN [h |-> r.h,
                   f |-> [f EXCEPT !.pos = @ + 1, !.cur = r.a,
                                   !.out = Append(@, Wrapper(h1, f.cur))]]
             ELSE [h |-> h1, f |-> [f EXCEPT !.pos = @ + 1]]

slicesOfOverlappingStepNoShift(iter, size, h, f) ==
    IF f.pos >= Len(iter) THEN [h |-> h, f |-> [f EXCEPT !.pc = "done"]]
    ELSE LET t1 == Append(h[f.cur], iter[f.pos + 1])
             h1 == [h EXCEPT ![f.cur] = t1]
             y  == slicesOfOverlappingYield(h1, f.cur)
         IN  IF Len(t1) = size
             THEN [h |-> y.h, f |-> [f EXCEPT !.pos = @ + 1,
                                              !.out = Append(@, y.item)]]
             ELSE [h |-> h1, f |-> [f EXCEPT !.pos = @ + 1]]

\* `temp.push(x); if (temp.length > size) temp.shift();
\*  if (temp.length === size) yield new It([...temp]);`
slicesOfOverlappingStep(iter, size, h, f) ==
    IF f.pos >= Len(iter) THEN [h |-> h, f |-> [f EXCEPT !.pc = "done"]]
    ELSE LET t1 == Append(h[f.cur], iter[f.pos + 1])
             t2 == IF Len(t1) > size THEN Tail(t1) ELSE t1
             h1 == [h EXCEPT ![f.cur] = t2]
             y  == slicesOfOverlappingYield(h1, f.cur)
         IN  IF Len(t2) = size
             THEN [h |-> y.h, f |-> [f EXCEPT !.pos = @ + 1,
                                              !.out = Append(@, y.item)]]
             ELSE [h |-> h1, f |-> [f EXCEPT !.pos = @ + 1]]

reversedStep(h, f) ==
    IF f.i >= 0
    THEN [h |-> h, f |-> [f EXCEPT !.i = @ - 1,
                                   !.out = Append(@, Value(h[f.cur][f.i + 1]))]]
    ELSE [h |-> h, f |-> [f EXCEPT !.pc = "done"]]

swapIndexAlwaysFirst(iv, c) == 0

\* permutations: `const j = i % 2 === 0 ? 0 : c[i]`
swapIndex(iv, c) == IF iv % 2 = 0 THEN 0 ELSE c[iv + 1]

permutationsStep(h, f) ==
    LET arr == h[f.cur]
        iv  == f.i
    IN  IF iv >= Len(arr) THEN [h |-> h, f |-> [f EXCEPT !.pc = "done"]]
        ELSE IF f.c[iv + 1] < iv
        THEN LET j  == swapIndex(iv, f.c)
                 h1 == [h EXCEPT ![f.cur] = Swap(arr, j + 1, iv + 1)]
                 y  == permYield(h1, f.cur)
             IN  [h |-> y.h,
                  f |-> [f EXCEPT !.c = [@ EXCEPT ![iv + 1] = @ + 1], !.i = 0,
                                  !.out = Append(@, y.item)]]
        ELSE [h |-> h, f |-> [f EXCEPT !.c = [@ EXCEPT ![iv + 1] = 0],
                                        !.i = iv + 1]]

\* one resume-to-suspend slice of a traversal of the wrapper k(iter, n)
step(k, iter, n, h, f) ==
    IF f.pc = "start" THEN begin(k, iter, n, h, f)
    ELSE CASE k = "drop" -> dropStep(iter, h, f)
           [] k = "take" -> takeStep(iter, h, f)
           [] k = "takeExceptLast" -> takeExceptLastStep(iter, n, h, f)
           [] k = "slicesOf" -> slicesOfStep(iter, n, h, f)
           [] k = "slicesOfOverlapping" -> slicesOfOverlappingStep(iter, n, h, f)
           [] k = "reversed" -> reversedStep(h, f)
           [] k = "permutations" -> permutationsStep(h, f)

RECURSIVE runFrom(_, _, _, _, _)
runFrom(k, iter, n, h, f) ==
    IF f.pc = "done" THEN f.out
    ELSE LET r == step(k, iter, n, h, f) IN runFrom(k, iter, n, r.h, r.f)

Vals(o) == [p \in 1..Len(o) |-> o[p].val]

\* toArray of one traversal made on its own: the values in yield order
toArray(k, iter, n) == Vals(runFrom(k, iter, n, <<>>, NewFrame))

(* ------------------------------ transpose ------------------------------ *)

\* prologue: `const width = max(mapBy(iter, arr => count(arr)))`
transposeBegin(iter, tf) ==
    [tf EXCEPT !.pc = "loop", !.width = max(mapByCount(iter)), !.x = 0]

\* `for (let x = 0; x < width; x++) yield genIt(...)`: the yielded column
\* closes over this iteration's x; `x < undefined` is false
transposeStep(tf) ==
    IF tf.width # undefined /\ tf.x < tf.width
    THEN [tf EXCEPT !.out = Append(@, [x |-> tf.x]), !.x = @ + 1]
    ELSE [tf EXCEPT !.pc = "done"]

\* a column: `for (const arr of iter) yield nth(arr, x)`
columnStep(iter, col, cf) ==
    IF cf.pos >= Len(iter) THEN [cf EXCEPT !.pc = "done"]
    ELSE [cf EXCEPT !.pos = @ + 1, !.out = Append(@, nth(iter[cf.pos + 1], col.x))]

NewTranspose == [pc |-> "start", width |-> undefined, x |-> 0, out |-> <<>>]
NewColumn == [pc |-> "loop", pos |-> 0, out |-> <<>>]

(* ------------------------------- states ------------------------------- *)

Wrappers == {"drop", "take", "takeExceptLast", "slicesOf",
             "slicesOfOverlapping", "reversed", "permutations"}
Numeric == {"drop", "take", "takeExceptLast", "slicesOf", "slicesOfOverlapping"}

Injective(s) == \A a, b \in 1..Len(s) : s[a] = s[b] => a = b

\* the sources of at most n pairwise-distinct elements
DistinctSeqs(n) == {s \in SeqsUpTo(1..n, n) : Injective(s)}

\* the rows of the given lengths, every cell holding a value of its own
Matrix(shape) ==
    [r \in 1..Len(shape) |-> [x \in 1..shape[r] |-> (MaxRowLen + 1) * r + x]]

InitWith(ks, ss, ns, ts) ==
    /\ kind \in ks
    /\ seq \in (IF kind = "transpose" THEN {<<>>} ELSE ss)
    /\ num \in (IF kind \in Numeric \cup {"sliced"} THEN ns ELSE {0})
    /\ endArg \in (IF kind = "sliced"
                   THEN {<<>>} \cup {<<e>> : e \in Nums(MaxLen)} ELSE {<<>>})
    /\ rows \in (IF kind = "transpose"
                 THEN {Matrix(sh) : sh \in SeqsUpTo(0..MaxRowLen, MaxRows)}
                 ELSE {<<>>})
    /\ travs = ts
    /\ heap = <<>>
    /\ frames = [t \in ts |-> NewFrame]
    /\ transp = NewTranspose
    /\ colrun = <<>>

Init == InitWith(Wrappers \cup {"sliced", "transpose"},
                 SeqsUpTo(1..MaxVal, MaxLen), Nums(MaxLen), {1})

InitPair == InitWith(Wrappers, DistinctSeqs(PairMaxLen),
                     (0 - 1)..(PairMaxLen + 1), {1, 2})

InitPerm == InitWith({"permutations"}, DistinctSeqs(PermMaxLen), {0}, {1})

(* ------------------------------- actions ------------------------------- *)

Apply(t, r) ==
    /\ heap' = r.h
    /\ frames' = [frames EXCEPT ![t] = r.f]
    /\ UNCHANGED <<kind, seq, num, endArg, rows, travs, transp, colrun>>

\* first resume of a traversal: the generator runs its prologue
Begin(t) ==
    /\ kind \in Wrappers
    /\ frames[t].pc = "start"
    /\ Apply(t, begin(kind, seq, num, heap, frames[t]))

DropStep(t) ==
    /\ kind = "drop" /\ frames[t].pc = "loop"
    /\ Apply(t, dropStep(seq, heap, frames[t]))

TakeStep(t) ==
    /\ kind = "take" /\ frames[t].pc = "loop"
    /\ Apply(t, takeStep(seq, heap, frames[t]))

TakeExceptLastStep(t) ==
    /\ kind = "takeExceptLast" /\ frames[t].pc = "loop"
    /\ Apply(t, takeExceptLastStep(seq, num, heap, frames[t]))

SlicesOfStep(t) ==
    /\ kind = "slicesOf" /\ frames[t].pc = "loop"
    /\ Apply(t, slicesOfStep(seq, num, heap, frames[t]))

SlicesOfOverlappingStep(t) ==
    /\ kind = "slicesOfOverlapping" /\ frames[t].pc = "loop"
    /\ Apply(t, slicesOfOverlappingStep(seq, num, heap, frames[t]))

ReversedStep(t) ==
    /\ kind = "reversed" /\ frames[t].pc = "loop"
    /\ Apply(t, reversedStep(heap, frames[t]))

PermutationsStep(t) ==
    /\ kind = "permutations" /\ frames[t].pc = "loop"
    /\ Apply(t, permutationsStep(heap, frames[t]))

\* toArray(sliced(seq, num, endArg))
SlicedRun(t) ==
    /\ kind = "sliced" /\ frames[t].pc = "start"
    /\ frames' = [frames EXCEPT ![t].pc = "done",
                                ![t].out = Yielded(sliced(seq, num, endArg))]
    /\ UNCHANGED <<kind, seq, num, endArg, rows, travs, heap, transp, colrun>>

TransposeBegin ==
    /\ kind = "transpose" /\ transp.pc = "start"
    /\ transp' = transposeBegin(rows, transp)
    /\ UNCHANGED <<kind, seq, num, endArg, rows, travs, heap, frames, colrun>>

TransposeStep ==
    /\ kind = "transpose" /\ transp.pc = "loop"
    /\ transp' = transposeStep(transp)
    /\ colrun' = IF Len(transp'.out) > Len(transp.out)
                 THEN Append(colrun, NewColumn) ELSE colrun
    /\ UNCHANGED <<kind, seq, num, endArg, rows, travs, heap, frames>>

\* the consumer advances its traversal of the k-th yielded column
ColumnStep(k) ==
    /\ kind = "transpose" /\ colrun[k].pc = "loop"
    /\ colrun' = [colrun EXCEPT ![k] = columnStep(rows, transp.out[k], @)]
    /\ UNCHANGED <<kind, seq, num, endArg, rows, travs, heap, frames, transp>>

NextPair ==
    \/ \E t \in travs : Begin(t)
    \/ \E t \in travs : DropStep(t)
    \/ \E t \in travs : TakeStep(t)
    \/ \E t \in travs : TakeExceptLastStep(t)
    \/ \E t \in travs : SlicesOfStep(t)
    \/ \E t \in travs : SlicesOfOverlappingStep(t)
    \/ \E t \in travs : ReversedStep(t)
    \/ \E t \in travs : PermutationsStep(t)

NextPerm ==
    \/ \E t \in travs : Begin(t)
    \/ \E t \in travs : PermutationsStep(t)

Next ==
    \/ \E t \in travs : Begin(t)
    \/ \E t \in travs : DropStep(t)
    \/ \E t \in travs : TakeStep(t)
    \/ \E t \in travs : TakeExceptLastStep(t)
    \/ \E t \in travs : SlicesOfStep(t)
    \/ \E t \in travs : SlicesOfOverlappingStep(t)
    \/ \E t \in travs : ReversedStep(t)
    \/ \E t \in travs : PermutationsStep(t)
    \/ \E t \in travs : SlicedRun(t)
    \/ TransposeBegin
    \/ TransposeStep
    \/ \E k \in 1..Len(colrun) : ColumnStep(k)

\* one traversal of one wrapper
Spec == Init /\ [][Next]_vars

\* two traversals of the same wrapper, interleaved arbitrarily
SpecPair == InitPair /\ [][NextPair]_vars

\* a traversal of permutations(seq) whose consumer keeps pulling until done
SpecPerm == InitPerm /\ [][NextPerm]_vars /\ WF_vars(NextPerm)

(* ============================ properties ============================ *)

Done(t) == frames[t].pc = "done"
Out(t) == Vals(frames[t].out)

\* Python's seq[start:end]; e is <<>> for an omitted end
PySlice(s, start, e) ==
    LET L  == Len(s)
        lo == IF start < 0 THEN Max2(L + start, 0) ELSE Min2(start, L)
        hi == IF e = <<>> THEN L
              ELSE IF e[1] < 0 THEN Max2(L + e[1], 0) ELSE Min2(e[1], L)
    IN  SubSeq(s, lo + 1, hi)

\* C1: toArray(sliced(seq, start, end)) equals the Python slice seq[start:end]
\* for all integers start and end of either sign, end possibly omitted.
SlicedIsPythonSlice ==
    \A t \in travs :
        (kind = "sliced" /\ Done(t)) => Out(t) = PySlice(seq, num, endArg)

\* C2: takeExceptLast(seq, n) yields the first max(0, L - n) elements of seq in
\* order and nothing else; for n > 0 an element is emitted exactly n pulls
\* after it was read, for n <= 0 the sequence passes through unchanged.
TakeExceptLastDelaysByN ==
    \A t \in travs :
        kind = "takeExceptLast" =>
            LET f == frames[t]
                emitted == IF num > 0 THEN Max2(0, f.pos - num) ELSE f.pos
            IN  /\ Out(t) = SubSeq(seq, 1, emitted)
                /\ Done(t) => f.pos = Len(seq)
                /\ Done(t) => Len(Out(t)) = Min2(Len(seq), Max2(0, Len(seq) - num))

TakeExceptLastWitness ==
    /\ kind = "takeExceptLast" /\ num = 2 /\ Len(seq) = 4
    /\ Done(1) /\ Out(1) = SubSeq(seq, 1, 2) /\ seq[1] # seq[3]

RECURSIVE Factorial(_)
Factorial(n) == IF n <= 0 THEN 1 ELSE n * Factorial(n - 1)

Range(s) == {s[p] : p \in 1..Len(s)}

\* b is a with the elements at two different positions exchanged
OneSwapApart(a, b) ==
    /\ Len(a) = Len(b)
    /\ LET D == {p \in 1..Len(a) : a[p] # b[p]}
       IN  /\ Cardinality(D) = 2
           /\ \A p, q \in D : p # q => (b[p] = a[q] /\ b[q] = a[p])

PermutationsInv ==
    \A t \in travs :
        (kind = "permutations" /\ Injective(seq) /\ frames[t].pc # "start") =>
            LET o == Out(t)
            IN  /\ Len(o) >= 1 /\ o[1] = seq
                /\ \A p \in 1..Len(o) : Len(o[p]) = Len(seq) /\ Range(o[p]) = Range(seq)
                /\ \A p, q \in 1..Len(o) : o[p] = o[q] => p = q
                /\ \A p \in 2..Len(o) : OneSwapApart(o[p - 1], o[p])
                /\ Len(o) <= Factorial(Len(seq))
                /\ Done(t) => Len(o) = Factorial(Len(seq))

\* C3: for k pairwise-distinct elements one traversal of permutations(seq)
\* yields exactly k! arrangements (snapshotted at the yield): the first is the
\* input order, every arrangement appears exactly once, each yield after the
\* first is one swap of two different positions away from the previous one,
\* and the traversal terminates.
PermutationsPlainChanges ==
    /\ []PermutationsInv
    /\ <>(\A t \in travs : Done(t))

PermutationsWitness ==
    /\ kind = "permutations" /\ Len(seq) = 4 /\ Injective(seq)
    /\ Done(1) /\ Len(frames[1].out) = 24

\* C4: slicesOf(seq, 0) emits exactly one empty chunk whatever the length of
\* seq, and no further chunk.
SlicesOfZeroOneChunk ==
    \A t \in travs :
        (kind = "slicesOf" /\ num = 0) =>
            /\ Len(frames[t].out) <= 1
            /\ Done(t) => Out(t) = << <<>> >>

\* C4 (amended): slicesOf(seq, 0) emits one empty chunk for every element of
\* seq and one more after the last: Len(seq) + 1 empty chunks in all.
SlicesOfZeroChunkPerElement ==
    \A t \in travs :
        (kind = "slicesOf" /\ num = 0 /\ frames[t].pc # "start") =>
            LET f == frames[t]
            IN  /\ \A p \in 1..Len(f.out) : f.out[p].val = <<>>
                /\ ~Done(t) => Len(f.out) = f.pos
                /\ Done(t) => Len(f.out) = Len(seq) + 1

SlicesOfZeroWitness ==
    /\ kind = "slicesOf" /\ num = 0 /\ Len(seq) = 3
    /\ Done(1) /\ Len(frames[1].out) = 4

\* C5: slicesOfOverlapping(seq, 0) emits exactly one empty window, before any
\* element is processed, and none thereafter.
SlicesOfOverlappingZeroOneWindow ==
    \A t \in travs :
        (kind = "slicesOfOverlapping" /\ num = 0 /\ frames[t].pc # "start") =>
            Out(t) = << <<>> >>

\* C5 (amended): slicesOfOverlapping(seq, 0) emits one empty window before any
\* element is processed and one more after each element: Len(seq) + 1 empty
\* windows in all.
SlicesOfOverlappingZeroWindowPerElement ==
    \A t \in travs :
        (kind = "slicesOfOverlapping" /\ num = 0 /\ frames[t].pc # "start") =>
            LET f == frames[t]
            IN  /\ \A p \in 1..Len(f.out) : f.out[p].val = <<>>
                /\ Len(f.out) = f.pos + 1
                /\ Done(t) => Len(f.out) = Len(seq) + 1

SlicesOfOverlappingZeroWitness ==
    /\ kind = "slicesOfOverlapping" /\ num = 0 /\ Len(seq) = 3
    /\ Done(1) /\ Len(frames[1].out) = 4

\* the element at index x (from 0) of row, undefined when the row is shorter
Cell(row, x) == IF Len(row) >= x + 1 THEN row[x + 1] ELSE undefined

Widest(rs) ==
    IF rs = <<>> THEN 0
    ELSE CHOOSE w \in {Len(rs[r]) : r \in 1..Len(rs)} :
            \A r \in 1..Len(rs) : Len(rs[r]) <= w

\* C6: transpose(seq) yields exactly (maximum row length) columns, none when
\* seq is empty, and column x, whenever it is traversed, yields for each row in
\* row order the element at index x of the row, or undefined when the row is
\* shorter than x + 1.
TransposeColumns ==
    kind = "transpose" =>
        /\ Len(transp.out) <= Widest(rows)
        /\ transp.pc = "done" => Len(transp.out) = Widest(rows)
        /\ \A k \in 1..Len(colrun) :
              /\ colrun[k].out = [r \in 1..colrun[k].pos |-> Cell(rows[r], k - 1)]
              /\ colrun[k].pc = "done" => colrun[k].pos = Len(rows)

TransposeWitness ==
    /\ kind = "transpose" /\ transp.pc = "done" /\ Len(colrun) = 2
    /\ colrun[1].pc = "loop" /\ colrun[1].pos = 0
    /\ colrun[2].pc = "done" /\ Len(colrun[2].out) = 3
    /\ colrun[2].out[1] = undefined /\ colrun[2].out[2] # undefined

IsPrefix(a, b) == Len(a) <= Len(b) /\ a = SubSeq(b, 1, Len(a))

\* C7: two traversals of one wrapper (drop, take, takeExceptLast, slicesOf,
\* slicesOfOverlapping, reversed, permutations) over an unchanged source,
\* advanced in any interleaving, each yield exactly what a lone traversal
\* yields, so both toArray() results are the same.
TraversalsIndependent ==
    \A t \in travs :
        LET lone == toArray(kind, seq, num)
        IN  /\ IsPrefix(Out(t), lone)
            /\ Done(t) => Out(t) = lone

TraversalsWitness ==
    /\ kind = "takeExceptLast" /\ num = 1 /\ Len(seq) = 3
    /\ Done(2) /\ Len(Out(2)) = 2
    /\ frames[1].pc = "loop" /\ frames[1].pos = 2 /\ Len(Out(1)) = 1

RECURSIVE Concat(_)
Concat(ss) == IF ss = <<>> THEN <<>> ELSE Head(ss) \o Concat(Tail(ss))

\* C8: for size >= 1, slicesOf(seq, size) yields ceil(L / size) consecutive
\* non-overlapping chunks: all but possibly the last have exactly size
\* elements, the last has 1..size, none is empty, their concatenation in yield
\* order is seq, and a yielded chunk is not changed by later steps.
SlicesOfPartition ==
    \A t \in travs :
        (kind = "slicesOf" /\ num >= 1) =>
            LET f == frames[t]
                o == Out(t)
            IN  /\ \A p \in 1..Len(o) :
                      /\ heap[f.out[p].ref] = o[p]
                      /\ Len(o[p]) >= 1 /\ Len(o[p]) <= num
                      /\ (p < Len(o) \/ ~Done(t)) => Len(o[p]) = num
                /\ IsPrefix(Concat(o), seq)
                /\ Done(t) => /\ Concat(o) = seq
                              /\ Len(o) = (Len(seq) + num - 1) \div num

SlicesOfWitness ==
    /\ kind = "slicesOf" /\ num = 2 /\ Len(seq) = 3 /\ Done(1)
    /\ Out(1) = << SubSeq(seq, 1, 2), SubSeq(seq, 3, 3) >>

\* C9: within one traversal of permutations(seq) every yielded wrapper is a
\* view over the same backing array: each wrapper yielded so far, read without
\* having been copied, shows the arrangement of the most recent yield, and
\* after the traversal all retained wrappers show the same final arrangement.
PermutationsShareBackingArray ==
    \A t \in travs :
        kind = "permutations" =>
            LET f == frames[t]
            IN  \A p \in 1..Len(f.out) :
                    /\ f.out[p].ref = f.cur
                    /\ heap[f.out[p].ref] = f.out[Len(f.out)].val

PermutationsAliasWitness ==
    /\ kind = "permutations" /\ Done(1) /\ Len(frames[1].out) = 6
    /\ heap[frames[1].out[1].ref] # frames[1].out[1].val

\* C10: in one traversal of take(seq, n) at most max(n, 0) elements are ever
\* pulled from seq; after the n-th element has been yielded the traversal ends
\* without requesting a further element from the source.
TakePullsAtMostQuota ==
    \A t \in travs :
        kind = "take" => frames[t].pos <= Max2(num, 0)

====
